---- MODULE Spec2Model ----
(***************************************************************************)
(* SingleStore MCP server: the HTTP front-end                              *)
(* (src/src/singlestore_mcp_server/server.py) and the tool front-end       *)
(* (src/singlestore_mcp_server/server.py).  Every handler opens one        *)
(* connection, runs one or two statements on it, builds its result and     *)
(* closes the connection in a finally clause.  A handler is modelled as a  *)
(* sequence of steps (connect, execute, finally) so that the order of the  *)
(* calls it makes on the driver is visible; the driver and the database    *)
(* are the environment and may fail at every call.                         *)
(***************************************************************************)
EXTENDS Integers, Sequences, FiniteSets, TLC

VARIABLES
    db,        \* the database: table name -> rows
    request,   \* per request slot: the inbound request (operation and inputs)
    pc,        \* per request slot: the handler's position
    conn,      \* per request slot: the local variable conn
    cur,       \* per request slot: the cursor after its last execute/fetch
    pending,   \* per request slot: the return value or exception in flight when finally runs
    resp,      \* per request slot: what the handler finally returned or raised
    trace      \* per request slot: the calls made on the driver, in order

vars == <<db, request, pc, conn, cur, pending, resp, trace>>

(***************************************************************************)
(* Bounds                                                                  *)
(***************************************************************************)
\* Largest length of a binary value stored in the database.
MaxBlobLen == 2

\* Request slots: requests of either front-end that may be in flight together.
Requests == {"r1", "r2"}

(***************************************************************************)
(* Python values.  A value carries its type, as isinstance sees it.        *)
(***************************************************************************)
IntV(n) == [type |-> "int", int |-> n]
StrV(s) == [type |-> "str", str |-> s]
BytesV(b) == [type |-> "bytes", bytes |-> b]
ByteArrayV(b) == [type |-> "bytearray", bytes |-> b]
DateTimeV(iso) == [type |-> "datetime", iso |-> iso]
NoneV == [type |-> "NoneType"]

\* A row of results_type='dict': an ordered mapping, column name -> value.
Item(k, v) == [key |-> k, value |-> v]

Blob(n) == [i \in 1..n |-> (40 + i) % 256]

\* Exceptions: type, status_code (HTTPException only, else 0) and message.
Exc(t, code, msg) == [type |-> t, status_code |-> code, detail |-> msg]

\* str(e), as the except clauses use it for the detail of the HTTPException they raise.
Str(e) ==
    IF e.type = "HTTPException"
    THEN ToString(e.status_code) \o ": " \o e.detail
    ELSE e.detail

(***************************************************************************)
(* The database and the driver (environment).                              *)
(***************************************************************************)
TableNames == <<"users", "docs">>

TableColumns(t) ==
    IF t = "users" THEN <<"id", "name">> ELSE <<"id", "body", "thumb">>

UsersRows ==
    << <<Item("id", IntV(1)), Item("name", StrV("ann"))>>,
       <<Item("id", IntV(2)), Item("name", NoneV)>> >>

DocsRows(n) ==
    << <<Item("id", IntV(1)), Item("body", BytesV(Blob(n))), Item("thumb", ByteArrayV(Blob(1)))>>,
       <<Item("id", IntV(2)), Item("body", StrV("text")), Item("thumb", NoneV)>> >>

\* The database: the rows of each table of the current schema.
InitDb(n) ==
    [t \in {"users", "docs"} |-> IF t = "users" THEN UsersRows ELSE DocsRows(n)]

Present(d, t) == t \in DOMAIN d

\* cursor.description: None, or the sequence of the result's columns.
NoDescription == [none |-> TRUE, cols |-> <<>>]
Description(cols) == [none |-> FALSE, cols |-> cols]

\* Statements, as the handlers hand them to cursor.execute.
Stmt(kind, table, bound) == [kind |-> kind, table |-> table, bound |-> bound]

LostConnection == Exc("OperationalError", 0, "2013: Lost connection to server during query")
SyntaxError == Exc("ProgrammingError", 0, "1064: You have an error in your SQL syntax")
NoSuchTable(t) == Exc("ProgrammingError", 0, "1146: Table '" \o t \o "' doesn't exist")

RECURSIVE MetadataRows(_, _)
MetadataRows(d, i) ==
    IF i > Len(TableNames) THEN <<>>
    ELSE LET t == TableNames[i]
             row == <<Item("TABLE_NAME", StrV(t)),
                      Item("TABLE_TYPE", StrV("BASE TABLE")),
                      Item("TABLE_COMMENT", StrV("")),
                      Item("CREATE_TIME", IF t = "users" THEN NoneV
                                           ELSE DateTimeV("2024-03-20T10:00:00"))>>
         IN  (IF Present(d, t) THEN <<row>> ELSE <<>>) \o MetadataRows(d, i + 1)

CursorResult(ok, exc, description, rows, rowcount, newdb) ==
    [ok |-> ok, exc |-> exc, description |-> description, rows |-> rows,
     rowcount |-> rowcount, db |-> newdb]

NoExc == Exc("", 0, "")

\* cursor.execute(stmt) on database d; fail says whether the driver fails during the call.
Execute(d, stmt, fail) ==
    IF fail = "execute" THEN CursorResult(FALSE, LostConnection, NoDescription, <<>>, 0, d)
    ELSE IF stmt.kind = "list_tables" THEN
        LET rows == MetadataRows(d, 1)
        IN  CursorResult(TRUE, NoExc,
                Description(<<"TABLE_NAME", "TABLE_TYPE", "TABLE_COMMENT", "CREATE_TIME">>),
                rows, Len(rows), d)
    ELSE IF stmt.kind = "table_exists" THEN
        LET rows == IF Present(d, stmt.table)
                    THEN << <<Item("TABLE_NAME", StrV(stmt.table))>> >> ELSE <<>>
        IN  CursorResult(TRUE, NoExc, Description(<<"TABLE_NAME">>), rows, Len(rows), d)
    ELSE IF stmt.kind = "malformed" THEN
        CursorResult(FALSE, SyntaxError, NoDescription, <<>>, 0, d)
    ELSE IF ~Present(d, stmt.table) THEN
        CursorResult(FALSE, NoSuchTable(stmt.table), NoDescription, <<>>, 0, d)
    ELSE IF stmt.kind = "select_all" THEN
        CursorResult(TRUE, NoExc, Description(TableColumns(stmt.table)),
                     d[stmt.table], Len(d[stmt.table]), d)
    ELSE IF stmt.kind = "drop_table" THEN
        CursorResult(TRUE, NoExc, NoDescription, <<>>, 0,
                     [t \in DOMAIN d \ {stmt.table} |-> d[t]])
    ELSE \* "delete_one": DELETE FROM <table> LIMIT 1
        LET rows == d[stmt.table]
            n == IF Len(rows) > 0 THEN 1 ELSE 0
        IN  CursorResult(TRUE, NoExc, NoDescription, <<>>, n,
                [d EXCEPT ![stmt.table] = IF n = 1 THEN Tail(rows) ELSE rows])


\* Where the driver may fail during one step of a handler.
FailureModes == {"none", "execute", "fetch"}

(***************************************************************************)
(* Handler outcomes.                                                       *)
(***************************************************************************)
Body(shape, keys, data, affected_rows, resources, text) ==
    [shape |-> shape, keys |-> keys, data |-> data, affected_rows |-> affected_rows,
     resources |-> resources, text |-> text]

NoBody == Body("none", {}, <<>>, 0, <<>>, "")
NoOutcome == [kind |-> "none", exc |-> NoExc, body |-> NoBody]
Return(body) == [kind |-> "return", exc |-> NoExc, body |-> body]
Raise(e) == [kind |-> "raise", exc |-> e, body |-> NoBody]

NoStmt == Stmt("", "", FALSE)
Event(call, stmt, result) == [call |-> call, stmt |-> stmt, result |-> result]

\* The cursor before any execute.
NewCursor == [description |-> NoDescription, rows |-> <<>>, rowcount |-> 0, exc |-> NoExc]
CursorOf(res) ==
    [description |-> res.description, rows |-> res.rows, rowcount |-> res.rowcount,
     exc |-> res.exc]

\* Python truthiness: `if cur.description`, `if request.parameters`.
DescriptionTruthy(d) == ~d.none /\ Len(d.cols) > 0
ParametersTruthy(p) == ~p.none /\ Len(p.items) > 0

\* row[key] of a dict row.
Get(row, key) == row[CHOOSE i \in 1..Len(row) : row[i].key = key].value

(***************************************************************************)
(* Inbound requests of the two front-ends.                                 *)
(***************************************************************************)
ResourceIds == {"users", "docs", "missing"}
ToolNames == {"execute_query", "drop_everything"}

NoParameters == [none |-> TRUE, items |-> <<>>]
Parameters == {NoParameters,
               [none |-> FALSE, items |-> <<>>],
               [none |-> FALSE, items |-> <<Item("id", IntV(1))>>]}

\* The SQL texts a caller sends, by what they do.
Queries == {Stmt("select_all", "docs", FALSE), Stmt("select_all", "users", FALSE),
            Stmt("delete_one", "users", FALSE), Stmt("drop_table", "docs", FALSE),
            Stmt("malformed", "", FALSE)}

Req(op, resource_id, name, has_query, query, parameters) ==
    [op |-> op, resource_id |-> resource_id, name |-> name, has_query |-> has_query,
     query |-> query, parameters |-> parameters]

NoRequest == Req("none", "", "", FALSE, NoStmt, NoParameters)

Inbound ==
    {Req("http_list", "", "", FALSE, NoStmt, NoParameters),
     Req("tool_list", "", "", FALSE, NoStmt, NoParameters)}
    \cup {Req(op, id, "", FALSE, NoStmt, NoParameters) :
            op \in {"http_read", "tool_read"}, id \in ResourceIds}
    \cup {Req("http_query", "", "", TRUE, q, p) : q \in Queries, p \in Parameters}
    \cup {Req("tool_call", "", n, TRUE, q, p) :
            n \in ToolNames, q \in Queries, p \in Parameters}
    \cup {Req("tool_call", "", n, FALSE, NoStmt, p) : n \in ToolNames, p \in Parameters}

Init ==
    /\ \E n \in 0..MaxBlobLen : db = InitDb(n)
    /\ request = [r \in Requests |-> NoRequest]
    /\ pc = [r \in Requests |-> "idle"]
    /\ conn = [r \in Requests |-> "unbound"]
    /\ cur = [r \in Requests |-> NewCursor]
    /\ pending = [r \in Requests |-> NoOutcome]
    /\ resp = [r \in Requests |-> NoOutcome]
    /\ trace = [r \in Requests |-> <<>>]

\* A request arrives and its handler is entered.
Receive(r) ==
    /\ pc[r] = "idle"
    /\ \E q \in Inbound :
        /\ request' = [request EXCEPT ![r] = q]
        /\ pc' = [pc EXCEPT ![r] = IF q.op = "tool_call" THEN "dispatch" ELSE "connect"]
    /\ UNCHANGED <<db, conn, cur, pending, resp, trace>>

(***************************************************************************)
(* Steps shared by the handlers' try/finally skeleton.                     *)
(***************************************************************************)
\* get_db_connection(): the connection, or HTTPException(500).
get_db_connection(ok) ==
    IF ok THEN [raised |-> FALSE, exc |-> NoExc]
    ELSE [raised |-> TRUE, exc |-> Exc("HTTPException", 500, "Database connection failed")]

\* The handler moves on: its position, locals and the calls it made.
Advance(r, newpc, newconn, newcur, newpending, events) ==
    /\ pc' = [pc EXCEPT ![r] = newpc]
    /\ conn' = [conn EXCEPT ![r] = newconn]
    /\ cur' = [cur EXCEPT ![r] = newcur]
    /\ pending' = [pending EXCEPT ![r] = newpending]
    /\ trace' = [trace EXCEPT ![r] = @ \o events]

\* Mutation: the query route maps its failures like the other two routes.
execute_query_except_500(e) == Exc("HTTPException", 500, Str(e))

\* The except clauses of the HTTP handlers; the tool handlers have none.
list_resources_except(e) == Exc("HTTPException", 500, Str(e))
get_resource_except(e) == Exc("HTTPException", 500, Str(e))
execute_query_except(e) == Exc("HTTPException", 400, Str(e))

\* The except clause of the handler of operation op.
Except(op, e) ==
    IF op = "http_list" THEN list_resources_except(e)
    ELSE IF op = "http_read" THEN get_resource_except(e)
    ELSE IF op = "http_query" THEN execute_query_except(e)
    ELSE e

\* The not-found error of the two read handlers.
NotFound(op) ==
    IF op = "http_read" THEN Exc("HTTPException", 404, "Resource not found")
    ELSE Exc("ValueError", 0, "Resource not found")

\* Mutation: a failed step is tried again.
AfterFailure_Retry(at) == at

\* An exception raised at position `at` of the try block leaves the block: the
\* except clause (if any) and then the finally clause run; nothing is tried again.
AfterFailure(at) == "finally"

\* `conn = get_db_connection()` as the first statement of the try block.
ConnectStep(r) ==
    /\ pc[r] = "connect"
    /\ \E ok \in BOOLEAN :
        LET c == get_db_connection(ok)
        IN  IF c.raised
            THEN Advance(r, AfterFailure("connect"), conn[r], cur[r], Raise(Except(request[r].op, c.exc)),
                         <<Event("connect", NoStmt, "error")>>)
            ELSE Advance(r, "execute", "open", cur[r], pending[r],
                         <<Event("connect", NoStmt, "ok")>>)
    /\ UNCHANGED <<db, request, resp>>

UnboundLocal ==
    Exc("UnboundLocalError", 0,
        "cannot access local variable 'conn' where it is not associated with a value")

\* Mutation: close only after the try block ended normally.
FinallyClause_LeakOnError(c, p) ==
    IF c = "unbound"
    THEN [conn |-> c, outcome |-> Raise(UnboundLocal), events |-> <<>>]
    ELSE IF p.kind = "raise"
    THEN [conn |-> c, outcome |-> p, events |-> <<>>]
    ELSE [conn |-> "closed", outcome |-> p, events |-> <<Event("close", NoStmt, "ok")>>]

\* `finally: conn.close()`: closes the connection and lets the pending return or
\* exception through; with conn never assigned, the clause itself raises.
FinallyClause(c, p) ==
    IF c = "unbound"
    THEN [conn |-> c, outcome |-> Raise(UnboundLocal), events |-> <<>>]
    ELSE [conn |-> "closed", outcome |-> p, events |-> <<Event("close", NoStmt, "ok")>>]

FinallyStep(r) ==
    /\ pc[r] = "finally"
    /\ LET f == FinallyClause(conn[r], pending[r])
       IN  /\ Advance(r, "done", f.conn, cur[r], pending[r], f.events)
           /\ resp' = [resp EXCEPT ![r] = f.outcome]
    /\ UNCHANGED <<db, request>>

(***************************************************************************)
(* Result building.                                                        *)
(***************************************************************************)
\* Resource(id=..., type="table", attributes={...}) for one row of the metadata query.
Resource(table) ==
    [id |-> Get(table, "TABLE_NAME"),
     type |-> "table",
     attributes |->
        <<Item("name", Get(table, "TABLE_NAME")),
          Item("type", Get(table, "TABLE_TYPE")),
          Item("comment", Get(table, "TABLE_COMMENT")),
          Item("created_at",
               IF Get(table, "CREATE_TIME").type # "NoneType"
               THEN StrV(Get(table, "CREATE_TIME").iso) ELSE NoneV)>>]

BuildResources(tables) == [i \in 1..Len(tables) |-> Resource(tables[i])]

\* Mutation: only bytes is recognised as binary, bytearray is passed through.
ReplaceBinary_BytesOnly(rows) ==
    [i \in 1..Len(rows) |->
        [j \in 1..Len(rows[i]) |->
            IF rows[i][j].value.type = "bytes"
            THEN Item(rows[i][j].key,
                      StrV("<binary data length=" \o ToString(Len(rows[i][j].value.bytes)) \o ">"))
            ELSE rows[i][j]]]

\* f"<binary data length={len(value)}>"
Placeholder(value) == StrV("<binary data length=" \o ToString(Len(value.bytes)) \o ">")

\* The loop over rows and row.items() that rewrites binary values in place.
ReplaceBinary(rows) ==
    [i \in 1..Len(rows) |->
        [j \in 1..Len(rows[i]) |->
            IF rows[i][j].value.type \in {"bytes", "bytearray"}
            THEN Item(rows[i][j].key, Placeholder(rows[i][j].value))
            ELSE rows[i][j]]]

\* json.dumps: the text of a value, or TypeError for a type JSON does not have.
JsonSerializable(v) == v.type \in {"int", "str", "NoneType"}

JsonValue(v) ==
    IF v.type = "int" THEN ToString(v.int)
    ELSE IF v.type = "str" THEN "\"" \o v.str \o "\""
    ELSE "null"

RECURSIVE JsonItems(_, _)
JsonItems(row, j) ==
    IF j > Len(row) THEN ""
    ELSE (IF j > 1 THEN ", " ELSE "") \o "\"" \o row[j].key \o "\": "
         \o JsonValue(row[j].value) \o JsonItems(row, j + 1)

RECURSIVE JsonRows(_, _)
JsonRows(rows, i) ==
    IF i > Len(rows) THEN ""
    ELSE (IF i > 1 THEN ", " ELSE "") \o "{" \o JsonItems(rows[i], 1) \o "}"
         \o JsonRows(rows, i + 1)

JsonTypeError(v) ==
    Exc("TypeError", 0, "Object of type " \o v.type \o " is not JSON serializable")

\* The first value json.dumps meets that it cannot encode.
RECURSIVE FirstUnserializable(_, _, _)
FirstUnserializable(rows, i, j) ==
    IF i > Len(rows) THEN [found |-> FALSE, value |-> NoneV]
    ELSE IF j > Len(rows[i]) THEN FirstUnserializable(rows, i + 1, 1)
    ELSE IF ~JsonSerializable(rows[i][j].value)
         THEN [found |-> TRUE, value |-> rows[i][j].value]
         ELSE FirstUnserializable(rows, i, j + 1)

\* json.dumps({"data": rows}) and json.dumps({"affected_rows": n}).
JsonDumps(keys, rows, n) ==
    IF keys = {"affected_rows"}
    THEN [raised |-> FALSE, exc |-> NoExc,
          text |-> "{\"affected_rows\": " \o ToString(n) \o "}"]
    ELSE LET bad == FirstUnserializable(rows, 1, 1)
         IN  IF bad.found
             THEN [raised |-> TRUE, exc |-> JsonTypeError(bad.value), text |-> ""]
             ELSE [raised |-> FALSE, exc |-> NoExc,
                   text |-> "{\"data\": [" \o JsonRows(rows, 1) \o "]}"]

\* What the HTTP handlers return, and what the tool handlers wrap as content.
DictResult(keys, rows, n) == Return(Body("dict", keys, rows, n, <<>>, ""))

ContentResult(keys, rows, n) ==
    LET j == JsonDumps(keys, rows, n)
    IN  IF j.raised THEN Raise(j.exc)
        ELSE Return(Body("content", keys, rows, n, <<>>, j.text))

\* The return value of the read handlers: get_resource replaces binary values
\* and returns the dict, handle_read_resource dumps the rows as they are.
ReadResult(op, rows) ==
    IF op = "http_read" THEN DictResult({"data"}, ReplaceBinary(rows), 0)
    ELSE ContentResult({"data"}, rows, 0)

\* The return value of the query handlers.
QueryResult(op, keys, rows, n) ==
    IF op = "http_query" THEN DictResult(keys, rows, n) ELSE ContentResult(keys, rows, n)

\* cur.fetchone(): the first row, or None.
fetchone(rows) ==
    IF Len(rows) > 0 THEN [none |-> FALSE, row |-> rows[1]] ELSE [none |-> TRUE, row |-> <<>>]

\* Mutation: the result of the existence check is ignored.
NotFetched_Never(f) == FALSE

\* `not cur.fetchone()`: None and the empty row are falsy.
NotFetched(f) == f.none \/ Len(f.row) = 0

\* The branch on cur.description of the Query Executor: the keys of its result.
ResultKeys(c) ==
    IF DescriptionTruthy(c.description) THEN {"data"} ELSE {"affected_rows"}

(***************************************************************************)
(* The statement steps of the handlers.                                    *)
(***************************************************************************)
\* A statement raised, during execute or during the fetch after it.
Failed(r, res, fail, stmt, fetch) ==
    IF ~res.ok
    THEN Advance(r, AfterFailure(pc[r]), conn[r], CursorOf(res), Raise(Except(request[r].op, res.exc)),
                 <<Event("execute", stmt, "error")>>)
    ELSE Advance(r, AfterFailure(pc[r]), conn[r],
                 [CursorOf(res) EXCEPT !.rows = <<>>, !.exc = LostConnection],
                 Raise(Except(request[r].op, LostConnection)),
                 <<Event("execute", stmt, "ok"), Event(fetch, stmt, "error")>>)

\* Table Lister: one metadata query, one Resource per row.
ListStep(r) ==
    /\ pc[r] = "execute"
    /\ \E fail \in FailureModes :
        LET stmt == Stmt("list_tables", "", FALSE)
            res == Execute(db, stmt, fail)
        IN  IF ~res.ok \/ fail = "fetch"
            THEN Failed(r, res, fail, stmt, "fetchall")
            ELSE Advance(r, "finally", conn[r], CursorOf(res),
                         Return(Body("resources", {}, <<>>, 0, BuildResources(res.rows), "")),
                         <<Event("execute", stmt, "ok"), Event("fetchall", stmt, "ok")>>)
    /\ UNCHANGED <<db, request, resp>>

\* Table Reader, first statement: the parameterized existence check and the
\* branch on its row.
ExistsStep(r) ==
    /\ pc[r] = "execute"
    /\ \E fail \in FailureModes :
        LET stmt == Stmt("table_exists", request[r].resource_id, TRUE)
            res == Execute(db, stmt, fail)
            f == fetchone(res.rows)
            calls == <<Event("execute", stmt, "ok"),
                       Event("fetchone", stmt, IF f.none THEN "none" ELSE "row")>>
        IN  IF ~res.ok \/ fail = "fetch"
            THEN Failed(r, res, fail, stmt, "fetchone")
            ELSE IF NotFetched(f)
            THEN Advance(r, AfterFailure("execute"), conn[r], CursorOf(res),
                         Raise(Except(request[r].op, NotFound(request[r].op))), calls)
            ELSE Advance(r, "select_all", conn[r], CursorOf(res), pending[r], calls)
    /\ UNCHANGED <<db, request, resp>>

\* Table Reader, second statement: SELECT * FROM <resource_id>, the name
\* interpolated into the text.
SelectStep(r) ==
    /\ pc[r] = "select_all"
    /\ \E fail \in FailureModes :
        LET stmt == Stmt("select_all", request[r].resource_id, FALSE)
            res == Execute(db, stmt, fail)
            out == ReadResult(request[r].op, res.rows)
        IN  IF ~res.ok \/ fail = "fetch"
            THEN Failed(r, res, fail, stmt, "fetchall")
            ELSE Advance(r, "finally", conn[r], CursorOf(res),
                         IF out.kind = "raise" THEN Raise(Except(request[r].op, out.exc)) ELSE out,
                         <<Event("execute", stmt, "ok"), Event("fetchall", stmt, "ok")>>)
    /\ UNCHANGED <<db, request, resp>>

\* Query Executor: the caller's statement, with the parameters bound by the
\* driver when they are truthy; rows when there is a description, else the count.
QueryStep(r) ==
    /\ pc[r] = "execute"
    /\ \E fail \in FailureModes :
        LET stmt == [request[r].query EXCEPT !.bound = ParametersTruthy(request[r].parameters)]
            res == Execute(db, stmt, fail)
            keys == ResultKeys(res)
            out == QueryResult(request[r].op, keys, res.rows, res.rowcount)
        IN  /\ db' = res.db
            /\ IF ~res.ok \/ (fail = "fetch" /\ keys = {"data"})
               THEN Failed(r, res, fail, stmt, "fetchall")
               ELSE Advance(r, "finally", conn[r], CursorOf(res),
                            IF out.kind = "raise" THEN Raise(Except(request[r].op, out.exc)) ELSE out,
                            <<Event("execute", stmt, "ok")>>
                            \o (IF keys = {"data"}
                                THEN <<Event("fetchall", stmt, "ok")>> ELSE <<>>))
    /\ UNCHANGED <<request, resp>>

(***************************************************************************)
(* HTTP front-end (src/src/singlestore_mcp_server/server.py).              *)
(***************************************************************************)
list_resources(r) ==
    /\ request[r].op = "http_list"
    /\ \/ ConnectStep(r)
       \/ ListStep(r)
       \/ FinallyStep(r)

get_resource(r) ==
    /\ request[r].op = "http_read"
    /\ \/ ConnectStep(r)
       \/ ExistsStep(r)
       \/ SelectStep(r)
       \/ FinallyStep(r)

execute_query(r) ==
    /\ request[r].op = "http_query"
    /\ \/ ConnectStep(r)
       \/ QueryStep(r)
       \/ FinallyStep(r)

(***************************************************************************)
(* Tool front-end (src/singlestore_mcp_server/server.py).                  *)
(***************************************************************************)
handle_list_resources(r) ==
    /\ request[r].op = "tool_list"
    /\ \/ ConnectStep(r)
       \/ ListStep(r)
       \/ FinallyStep(r)

handle_read_resource(r) ==
    /\ request[r].op = "tool_read"
    /\ \/ ConnectStep(r)
       \/ ExistsStep(r)
       \/ SelectStep(r)
       \/ FinallyStep(r)

\* Mutation: the name is not checked; any tool name runs the query.
UnknownTool_Ignored(name) == [kind |-> "none", exc |-> Exc("", 0, ""),
                              body |-> [shape |-> "none", keys |-> {}, data |-> <<>>,
                                        affected_rows |-> 0, resources |-> <<>>, text |-> ""]]

\* `if name != "execute_query": raise ValueError(...)`, before the try block.
UnknownTool(name) ==
    IF name # "execute_query"
    THEN Raise(Exc("ValueError", 0, "Unknown tool: " \o name))
    ELSE NoOutcome

\* arguments["query"] with no such key, inside the try block.
MissingQuery(r) ==
    /\ pc[r] = "execute"
    /\ ~request[r].has_query
    /\ Advance(r, AfterFailure("execute"), conn[r], cur[r],
               Raise(Exc("KeyError", 0, "'query'")), <<>>)
    /\ UNCHANGED <<db, request, resp>>

handle_call_tool(r) ==
    /\ request[r].op = "tool_call"
    /\ \/ /\ pc[r] = "dispatch"
          /\ LET u == UnknownTool(request[r].name)
             IN  IF u.kind = "raise"
                 THEN /\ Advance(r, "done", conn[r], cur[r], pending[r], <<>>)
                      /\ resp' = [resp EXCEPT ![r] = u]
                 ELSE /\ Advance(r, "connect", conn[r], cur[r], pending[r], <<>>)
                      /\ UNCHANGED resp
          /\ UNCHANGED <<db, request>>
       \/ ConnectStep(r)
       \/ MissingQuery(r)
       \/ request[r].has_query /\ QueryStep(r)
       \/ FinallyStep(r)

Next ==
    \E r \in Requests :
        \/ Receive(r)
        \/ list_resources(r)
        \/ get_resource(r)
        \/ execute_query(r)
        \/ handle_list_resources(r)
        \/ handle_read_resource(r)
        \/ handle_call_tool(r)

Spec == Init /\ [][Next]_vars

(***************************************************************************)
(* Observations used by the properties.                                    *)
(***************************************************************************)
\* The status the HTTP framework answers with: 200 for a returned value, the
\* status_code of an HTTPException, 500 for any other exception.
HttpStatus(o) ==
    IF o.kind = "return" THEN 200
    ELSE IF o.exc.type = "HTTPException" THEN o.exc.status_code
    ELSE 500

HttpOps == {"http_list", "http_read", "http_query"}
ReadOps == {"http_read", "tool_read"}
QueryOps == {"http_query", "tool_call"}

Done(r) == pc[r] = "done"
Called(r, call, result) ==
    \E i \in 1..Len(trace[r]) : trace[r][i].call = call /\ trace[r][i].result = result
Opened(r) == Called(r, "connect", "ok")
Count(r, call) == Cardinality({i \in 1..Len(trace[r]) : trace[r][i].call = call})
Binary(v) == v.type \in {"bytes", "bytearray"}

(***************************************************************************)
(* C1: reading a resource id whose existence check returns no row answers  *)
(* GET /resources/{resource_id} with status 404.  Stated as claimed; the   *)
(* handler's own except clause catches the 404 and answers 500.            *)
(***************************************************************************)
C1_NotFoundIs404 ==
    \A r \in Requests :
        (Done(r) /\ request[r].op = "http_read" /\ Called(r, "fetchone", "none"))
            => HttpStatus(resp[r]) = 404

(***************************************************************************)
(* C2: every connection a request opened is closed by that request before  *)
(* its response or error is returned, on every exit path and under every   *)
(* interleaving of requests: a finished handler holds no open connection,  *)
(* it closed exactly the connection it opened, and close is its last call. *)
(***************************************************************************)
C2_ConnectionReleased ==
    \A r \in Requests :
        /\ (resp[r].kind # "none" \/ Done(r)) => conn[r] # "open"
        /\ (Done(r) /\ Opened(r)) =>
              /\ conn[r] = "closed"
              /\ Count(r, "close") = 1
              /\ trace[r][Len(trace[r])].call = "close"
        /\ (conn[r] = "open") <=> (Opened(r) /\ ~Called(r, "close", "ok"))

\* Two requests both opened a connection; one ended with an error after a
\* failed statement, the other returned a value, and both are closed.
C2_Witness ==
    \E r1, r2 \in Requests :
        /\ r1 # r2 /\ Done(r1) /\ Done(r2) /\ Opened(r1) /\ Opened(r2)
        /\ resp[r1].kind = "raise" /\ Called(r1, "execute", "error")
        /\ resp[r2].kind = "return"

(***************************************************************************)
(* C3: for every statement of the Query Executor that executes without     *)
(* error, in POST /query and in the execute_query tool, the result is      *)
(* {data: all fetched rows} if and only if the statement has a column      *)
(* description and {affected_rows: rowcount} otherwise, with exactly one   *)
(* of the two keys.  Stated as claimed; the tool raises TypeError from     *)
(* json.dumps when a fetched row holds a binary value.                     *)
(***************************************************************************)
C3_ResultShape ==
    \A r \in Requests :
        (/\ Done(r) /\ request[r].op \in QueryOps
         /\ Called(r, "execute", "ok") /\ ~Called(r, "fetchall", "error"))
            => /\ resp[r].kind = "return"
               /\ resp[r].body.keys \in {{"data"}, {"affected_rows"}}
               /\ (resp[r].body.keys = {"data"}) <=> ~cur[r].description.none
               /\ resp[r].body.keys = {"data"} => resp[r].body.data = cur[r].rows
               /\ resp[r].body.keys = {"affected_rows"}
                    => resp[r].body.affected_rows = cur[r].rowcount

(***************************************************************************)
(* C4: on POST /query, when the connection was opened and executing the    *)
(* statement or fetching its rows fails, the response is HTTP 400 with the *)
(* driver's message as its detail.                                         *)
(***************************************************************************)
C4_QueryFailureIs400 ==
    \A r \in Requests :
        (/\ Done(r) /\ request[r].op = "http_query" /\ Opened(r)
         /\ (Called(r, "execute", "error") \/ Called(r, "fetchall", "error")))
            => /\ resp[r].kind = "raise"
               /\ HttpStatus(resp[r]) = 400
               /\ resp[r].exc.type = "HTTPException"
               /\ resp[r].exc.detail = cur[r].exc.detail
               /\ cur[r].exc.detail # ""

\* Both ways to fail have been answered: a statement the server rejects, and
\* a fetch that breaks after the execute succeeded.
C4_Witness ==
    \E r1, r2 \in Requests :
        /\ Done(r1) /\ request[r1].op = "http_query" /\ Called(r1, "execute", "error")
        /\ cur[r1].exc = SyntaxError
        /\ Done(r2) /\ request[r2].op = "http_query" /\ Called(r2, "fetchall", "error")

(***************************************************************************)
(* C5: on each HTTP route, when opening the connection fails the request   *)
(* ends with the connection-failure error, an HTTPException of status 500, *)
(* and the cleanup step does not replace it by another error.  Stated as   *)
(* claimed; `finally: conn.close()` raises UnboundLocalError instead.      *)
(***************************************************************************)
C5_ConnectionFailureIs500 ==
    \A r \in Requests :
        (Done(r) /\ request[r].op \in HttpOps /\ Called(r, "connect", "error"))
            => /\ resp[r] = pending[r]
               /\ resp[r].exc.type = "HTTPException"
               /\ resp[r].exc.status_code = 500

(***************************************************************************)
(* C6: a call_tool invocation whose name is not "execute_query" ends, with *)
(* any arguments, in an error naming the unknown tool; it returns no       *)
(* content and touches no connection.                                      *)
(***************************************************************************)
C6_UnknownToolFails ==
    \A r \in Requests :
        (/\ request[r].op = "tool_call" /\ request[r].name # "execute_query"
         /\ pc[r] # "dispatch")
            => /\ Done(r)
               /\ resp[r] = Raise(Exc("ValueError", 0, "Unknown tool: " \o request[r].name))
               /\ resp[r].body = NoBody
               /\ trace[r] = <<>>
               /\ conn[r] = "unbound"

C6_Witness ==
    \E r \in Requests :
        /\ Done(r) /\ request[r].op = "tool_call" /\ request[r].name = "drop_everything"
        /\ request[r].has_query /\ request[r].query.kind = "drop_table"
        /\ resp[r].exc.detail = "Unknown tool: drop_everything"
        /\ "docs" \in DOMAIN db

(***************************************************************************)
(* C7: read_resource of the tool front-end and GET /resources/{id} of the  *)
(* HTTP front-end, given the same resource id and the same answers of the  *)
(* database, issue the same statements in the same order and end the same  *)
(* way: the same rows (binary values replaced by placeholders) on success, *)
(* not-found when the table is absent.  Stated as claimed; the tool        *)
(* handler has no placeholder step and the HTTP handler turns its 404 into *)
(* a 500.                                                                  *)
(***************************************************************************)
ReadOutcome(o) ==
    IF o.kind = "return" THEN [kind |-> "data", data |-> o.body.data]
    ELSE IF o.exc \in {Exc("HTTPException", 404, "Resource not found"),
                       Exc("ValueError", 0, "Resource not found")}
         THEN [kind |-> "not_found", data |-> <<>>]
    ELSE [kind |-> "error", data |-> <<>>]

Answers(r) == [i \in 1..Len(trace[r]) |-> trace[r][i].result]

C7_ReadEquivalence ==
    \A r1, r2 \in Requests :
        (/\ Done(r1) /\ request[r1].op = "http_read"
         /\ Done(r2) /\ request[r2].op = "tool_read"
         /\ request[r1].resource_id = request[r2].resource_id
         /\ Answers(r1) = Answers(r2)
         /\ cur[r1].rows = cur[r2].rows)
            => /\ trace[r1] = trace[r2]
               /\ ReadOutcome(resp[r1]) = ReadOutcome(resp[r2])

(***************************************************************************)
(* C8: when GET /resources/T of an existing table T has run its SELECT *,  *)
(* it returns {data: rows} with as many rows, in the same order, with the  *)
(* same columns and the same non-binary values as the SELECT delivered,    *)
(* every bytes or bytearray value of length N replaced by the string       *)
(* "<binary data length=N>", and no binary value left.                     *)
(***************************************************************************)
C8_ReadReplacesBinary ==
    \A r \in Requests :
        (Done(r) /\ request[r].op = "http_read" /\ Called(r, "fetchall", "ok"))
            => /\ resp[r].kind = "return"
               /\ resp[r].body.keys = {"data"}
               /\ LET raw == cur[r].rows
                      out == resp[r].body.data
                  IN  /\ Len(out) = Len(raw)
                      /\ \A i \in 1..Len(raw) :
                            /\ Len(out[i]) = Len(raw[i])
                            /\ \A j \in 1..Len(raw[i]) :
                                  /\ out[i][j].key = raw[i][j].key
                                  /\ ~Binary(out[i][j].value)
                                  /\ IF Binary(raw[i][j].value)
                                     THEN out[i][j].value =
                                            StrV("<binary data length="
                                                 \o ToString(Len(raw[i][j].value.bytes))
                                                 \o ">")
                                     ELSE out[i][j].value = raw[i][j].value

\* A table with a bytes value of the largest length, a bytearray value and
\* non-binary values in two rows has been read.
C8_Witness ==
    \E r \in Requests :
        /\ Done(r) /\ request[r].op = "http_read" /\ resp[r].kind = "return"
        /\ Len(cur[r].rows) = 2
        /\ cur[r].rows[1][2].value = BytesV(Blob(MaxBlobLen))
        /\ cur[r].rows[1][3].value.type = "bytearray"
        /\ resp[r].body.data[1][2].value.type = "str"
        /\ resp[r].body.data[2][2].value = StrV("text")

(***************************************************************************)
(* C9: in the Table Reader of both front-ends, SELECT * FROM <resource_id> *)
(* is executed only directly after the parameterized existence check of    *)
(* the same resource_id was executed and its fetch returned a row; when    *)
(* the check returns no row or fails, no SELECT * is issued.               *)
(***************************************************************************)
C9_ExistenceCheckedFirst ==
    \A r \in Requests :
        request[r].op \in ReadOps =>
            LET t == trace[r]
                check == Stmt("table_exists", request[r].resource_id, TRUE)
                selects == {i \in 1..Len(t) :
                                t[i].call = "execute" /\ t[i].stmt.kind = "select_all"}
            IN  /\ \A i \in selects :
                      /\ t[i].stmt.table = request[r].resource_id
                      /\ i > 2
                      /\ t[i - 2] = Event("execute", check, "ok")
                      /\ t[i - 1] = Event("fetchone", check, "row")
                /\ (\E i \in 1..Len(t) :
                        /\ t[i].stmt.kind = "table_exists"
                        /\ t[i].result \in {"none", "error"}) => selects = {}

\* Both front-ends have read a table after a positive check, and both have
\* stopped after a check that found no row.
C9_Witness ==
    \E r1, r2 \in Requests :
        /\ request[r1].op \in ReadOps /\ request[r2].op \in ReadOps
        /\ request[r1].op # request[r2].op
        /\ Done(r1) /\ Called(r1, "fetchall", "ok")
        /\ Done(r2) /\ Called(r2, "fetchone", "none")

(***************************************************************************)
(* C10: no retries and a bounded footprint: in every reachable state each  *)
(* request has made at most one connection-open attempt and at most two    *)
(* statement executions (one for list and query, two for read), and after  *)
(* a failed open or a failed statement it makes no further open, execute   *)
(* or fetch.                                                               *)
(***************************************************************************)
C10_NoRetries ==
    \A r \in Requests :
        LET t == trace[r] IN
        /\ Count(r, "connect") <= 1
        /\ Count(r, "execute") <= (IF request[r].op \in ReadOps THEN 2 ELSE 1)
        /\ \A i, j \in 1..Len(t) :
              (i < j /\ t[i].result = "error") => t[j].call = "close"

\* One request ended after a failed open, the other after a failed second
\* statement of a read.
C10_Witness ==
    \E r1, r2 \in Requests :
        /\ Done(r1) /\ Called(r1, "connect", "error") /\ Len(trace[r1]) = 1
        /\ Done(r2) /\ request[r2].op \in ReadOps /\ Count(r2, "execute") = 2
        /\ trace[r2][4].result = "error"
====
